---- MODULE Spec2Model ----
(***************************************************************************)
(* Model of the transcript services of fast-whisperer-api:                 *)
(*   youtube_fetch.py  get_youtube_transcript, extract_video_id            *)
(*   audio_utils.py    AudioProcessor (validate, transcribe_file,          *)
(*                     transcribe_uploaded_file)                           *)
(*   main.py           model loading, read_root, create_transcription      *)
(* Text is a sequence of one-character strings, so that strip, lower,      *)
(* join, Path.suffix and re.search are computed character by character.    *)
(* The collaborators (caption library, speech model, downloader, file      *)
(* system) are nondeterministic: every outcome their interface allows.     *)
(***************************************************************************)
EXTENDS Integers, Sequences, FiniteSets, TLC

\* Python's None where a text or a list is expected: no text has this element
None == <<"None">>

(***************************************************************************)
(* Bounds of the model                                                     *)
(***************************************************************************)
\* longest segment stream a collaborator yields in one call
MaxSegs == 2
\* how many requests create_transcription serves (uuid4 names are fresh)
MaxRequests == 2
\* how many clients send a request to the served application
MaxClients == 2

(***************************************************************************)
(* Text helpers (str methods of Python)                                    *)
(***************************************************************************)
\* characters str.strip() removes (the ones the model's texts use)
Whitespace == {" ", "\n"}

RECURSIVE LStrip(_)
LStrip(s) ==
    IF s = <<>> THEN <<>>
    ELSE IF Head(s) \in Whitespace THEN LStrip(Tail(s)) ELSE s

RECURSIVE RStrip(_)
RStrip(s) ==
    IF s = <<>> THEN <<>>
    ELSE IF s[Len(s)] \in Whitespace THEN RStrip(SubSeq(s, 1, Len(s) - 1)) ELSE s

\* strip() that trims the left end only
Strip_LeftOnly(s) == LStrip(s)

\* str.strip()
Strip(s) == RStrip(LStrip(s))

\* sep.join(parts)
RECURSIVE Join(_, _)
Join(sep, parts) ==
    IF parts = <<>> THEN <<>>
    ELSE IF Len(parts) = 1 THEN parts[1]
    ELSE parts[1] \o sep \o Join(sep, Tail(parts))

\* str.lower() on the letters the model's file names use
LowerChar(c) ==
    CASE c = "M" -> "m"
      [] c = "P" -> "p"
      [] c = "W" -> "w"
      [] c = "A" -> "a"
      [] c = "V" -> "v"
      [] c = "T" -> "t"
      [] c = "X" -> "x"
      [] OTHER -> c

Lower(s) == [i \in 1..Len(s) |-> LowerChar(s[i])]

\* len(text.split()) : the number of maximal runs of non-whitespace
RECURSIVE SplitCount(_, _)
SplitCount(s, inWord) ==
    IF s = <<>> THEN 0
    ELSE IF Head(s) \in Whitespace THEN SplitCount(Tail(s), FALSE)
    ELSE (IF inWord THEN 0 ELSE 1) + SplitCount(Tail(s), TRUE)

\* s[i..] starts with lit
StartsAt(s, i, lit) ==
    /\ i + Len(lit) - 1 <= Len(s)
    /\ \A k \in 1..Len(lit) : s[i + k - 1] = lit[k]

\* positions of character c in s
Positions(s, c) == {i \in 1..Len(s) : s[i] = c}

SetMax(S) == CHOOSE x \in S : \A y \in S : y <= x
SetMin(S) == CHOOSE x \in S : \A y \in S : x <= y

(***************************************************************************)
(* youtube_fetch.py : extract_video_id                                     *)
(***************************************************************************)
LitWatch == <<"y","o","u","t","u","b","e",".","c","o","m","/","w","a","t","c","h","?","v","=">>
LitShort == <<"y","o","u","t","u",".","b","e","/">>
LitEmbed == <<"y","o","u","t","u","b","e",".","c","o","m","/","e","m","b","e","d","/">>
LitV     == <<"y","o","u","t","u","b","e",".","c","o","m","/","v","/">>

\* the three regular expressions, each a list of alternative literal prefixes
\* followed by the group ([^&\n?#]+)
patterns == << <<LitWatch, LitShort>>, <<LitEmbed>>, <<LitV>> >>

\* the characters the group [^&\n?#] excludes
GroupStop == {"&", "\n", "?", "#"}

\* the longest run of group characters of s from position j (may be empty)
RECURSIVE GroupRun(_, _)
GroupRun(s, j) ==
    IF j > Len(s) \/ s[j] \in GroupStop THEN <<>>
    ELSE <<s[j]>> \o GroupRun(s, j + 1)

\* alternative lit matches at position i: the literal, then at least one
\* group character
AltMatchesAt(s, i, lit) ==
    /\ StartsAt(s, i, lit)
    /\ GroupRun(s, i + Len(lit)) # <<>>

\* re.search(pattern, url): the leftmost position where an alternative
\* matches, the first alternative in pattern order; group(1), or None
ReSearch(alts, s) ==
    LET hits == {i \in 1..Len(s) : \E a \in 1..Len(alts) : AltMatchesAt(s, i, alts[a])}
    IN  IF hits = {} THEN None
        ELSE LET i == SetMin(hits)
                 a == SetMin({b \in 1..Len(alts) : AltMatchesAt(s, i, alts[b])})
             IN  GroupRun(s, i + Len(alts[a]))

\* extract_video_id(url): the first pattern that matches decides
RECURSIVE ExtractFrom(_, _)
ExtractFrom(p, url) ==
    IF p > Len(patterns) THEN None
    ELSE LET m == ReSearch(patterns[p], url)
         IN  IF m # None THEN m ELSE ExtractFrom(p + 1, url)

extract_video_id(url) == ExtractFrom(1, url)

(***************************************************************************)
(* URLs given to extract_video_id: scheme, host, then one path/query shape *)
(***************************************************************************)
Scheme      == <<"h","t","t","p","s",":","/","/">>
HostYoutube == <<"y","o","u","t","u","b","e",".","c","o","m">>
HostWww     == <<"w","w","w",".">> \o HostYoutube
HostMobile  == <<"m",".">> \o HostYoutube
HostShort   == <<"y","o","u","t","u",".","b","e">>
\* hosts that are not YouTube's
HostSuffix  == <<"n","o","t">> \o HostYoutube
HostPrefix  == HostYoutube \o <<".","e","v",".","i","o">>
HostOther   == <<"e","x",".","i","o">>

YoutubeHosts == {HostYoutube, HostWww, HostMobile}
ForeignHosts == {HostSuffix, HostPrefix, HostOther}

VideoIds == { <<"a","B","_","1">>, <<"Z","-","9">> }

\* the path and query of each shape
PathOf(shape, id) ==
    CASE shape = "watch"       -> <<"/","w","a","t","c","h","?","v","=">> \o id
      [] shape = "watch_first" -> <<"/","w","a","t","c","h","?","v","=">> \o id \o <<"&","t","=","1">>
      [] shape = "watch_later" -> <<"/","w","a","t","c","h","?","t","=","1","&","v","=">> \o id
      [] shape = "embed"       -> <<"/","e","m","b","e","d","/">> \o id
      [] shape = "v"           -> <<"/","v","/">> \o id
      [] shape = "short"       -> <<"/">> \o id
      [] shape = "short_query" -> <<"/">> \o id \o <<"?","t","=","1">>
      [] shape = "referrer"    -> <<"/","r","?","u","=">> \o HostShort \o <<"/">> \o id
      [] shape = "watch_noid"  -> <<"/","w","a","t","c","h">>
      [] shape = "root"        -> <<"/">>

WatchShapes == {"watch", "watch_first", "watch_later", "embed", "v"}
ShortShapes == {"short", "short_query"}

\* the inputs: every recorded case is a URL whose host and shape are known
UrlCases ==
    [host : YoutubeHosts, shape : WatchShapes \cup {"watch_noid", "root"}, id : VideoIds]
    \cup [host : {HostShort}, shape : ShortShapes \cup {"root"}, id : VideoIds]
    \cup [host : ForeignHosts,
          shape : WatchShapes \cup ShortShapes \cup {"referrer", "root"}, id : VideoIds]

UrlOf(c) == Scheme \o c.host \o PathOf(c.shape, c.id)

(***************************************************************************)
(* The caption collaborator (youtube_transcript_api), as the calls of     *)
(* get_youtube_transcript see it                                           *)
(***************************************************************************)
\* language codes a video's tracks can have
TrackLangs == {"en", "pt", "fr"}

\* the languages argument: the default, and two a caller passes
DefaultLanguages == <<"en", "pt", "es">>
LanguageLists == {DefaultLanguages, <<"pt", "en">>, <<"fr">>}

\* api.list(video_id): a TranscriptList holds the manually created tracks
\* and the generated tracks, each keyed by language code
TranscriptLists == [manual : SUBSET TrackLangs, generated : SUBSET TrackLangs]
EmptyList == [manual |-> {}, generated |-> {}]

\* a Transcript object; NoTranscriptFound is the lookup's exception
Track(lang, gen) == [language_code |-> lang, is_generated |-> gen]
NoTranscriptFound == [language_code |-> "NoTranscriptFound", is_generated |-> FALSE]

\* TranscriptList._find_transcript: for each language code in order, the
\* first of the given dictionaries that has it
RECURSIVE FindIn(_, _, _)
FindIn(tl, langs, kinds) ==
    IF langs = <<>> THEN NoTranscriptFound
    ELSE LET code == Head(langs)
             has(k) == IF k = "manual" THEN code \in tl.manual ELSE code \in tl.generated
             hit == {i \in 1..Len(kinds) : has(kinds[i])}
         IN  IF hit # {} THEN Track(code, kinds[SetMin(hit)] = "generated")
             ELSE FindIn(tl, Tail(langs), kinds)

\* transcript_list.find_transcript(languages): manually created first, then
\* generated, language by language
find_transcript(tl, langs) == FindIn(tl, langs, <<"manual", "generated">>)

\* a lookup of generated tracks that takes a track of any language when no
\* preferred language has one
find_generated_transcript_AnyLanguage(tl, langs) ==
    IF FindIn(tl, langs, <<"generated">>) # NoTranscriptFound
    THEN FindIn(tl, langs, <<"generated">>)
    ELSE IF tl.generated = {} THEN NoTranscriptFound
    ELSE Track(CHOOSE l \in tl.generated : TRUE, TRUE)

\* transcript_list.find_generated_transcript(languages)
find_generated_transcript(tl, langs) == FindIn(tl, langs, <<"generated">>)

\* exceptions api.list and transcript.fetch raise
ListErrors  == {"TranscriptsDisabled", "VideoUnavailable", "RequestBlocked"}
FetchErrors == {"RequestBlocked"}

\* texts of caption and speech segments
Texts == { <<>>, <<" ">>, <<"h","i">>, <<" ","y","o"," ">> }

\* segment streams of at most MaxSegs texts
TextStreams == UNION {[1..n -> Texts] : n \in 0..MaxSegs}

\* " ".join([segment.text for segment in transcript_data])
JoinCaption(data) == Join(<<" ">>, data)

(***************************************************************************)
(* audio_utils.py : AudioProcessor helpers                                 *)
(***************************************************************************)
SUPPORTED_FORMATS ==
    { <<".","m","p","3">>, <<".","w","a","v">>, <<".","m","4","a">>,
      <<".","f","l","a","c">>, <<".","o","g","g">>, <<".","w","m","a">>,
      <<".","a","a","c">>, <<".","w","e","b","m">>, <<".","m","p","4">>,
      <<".","m","o","v">> }

\* Path(filename).name: the last component, trailing slashes dropped
RECURSIVE DropTrailingSlashes(_)
DropTrailingSlashes(f) ==
    IF f # <<>> /\ f[Len(f)] = "/" THEN DropTrailingSlashes(SubSeq(f, 1, Len(f) - 1))
    ELSE f

PathName(f) ==
    LET g == DropTrailingSlashes(f)
        slashes == Positions(g, "/")
    IN  IF slashes = {} THEN g ELSE SubSeq(g, SetMax(slashes) + 1, Len(g))

\* Path(filename).suffix: from the last dot of the name, when that dot is
\* neither the first nor the last character of the name
PathSuffix(f) ==
    LET name == PathName(f)
        dots == Positions(name, ".")
    IN  IF dots = {} THEN <<>>
        ELSE LET i == SetMax(dots)
             IN  IF 1 < i /\ i < Len(name) THEN SubSeq(name, i, Len(name)) ELSE <<>>

\* is_supported_format that accepts every file name with a suffix
is_supported_format_AnySuffix(filename) == PathSuffix(filename) # <<>>

\* is_supported_format(filename)
is_supported_format(filename) == Lower(PathSuffix(filename)) \in SUPPORTED_FORMATS

MsgNoFilename  == <<"No filename provided">>
MsgUnsupported == <<"Unsupported file format. Supported formats: ", "SUPPORTED_FORMATS">>

\* validate_audio_file(filename) -> (is_valid, error_message)
validate_audio_file(filename) ==
    IF filename = <<>> THEN [is_valid |-> FALSE, error_msg |-> MsgNoFilename]
    ELSE IF ~is_supported_format(filename)
         THEN [is_valid |-> FALSE, error_msg |-> MsgUnsupported]
         ELSE [is_valid |-> TRUE, error_msg |-> <<>>]

\* file names given to transcribe_uploaded_file
Filenames ==
    { <<>>,
      <<"n","o","t","e","s",".","t","x","t">>,
      <<"t","e","s","t",".","t","x","t">>,
      <<"a",".","m","p","3">>,
      <<"A",".","M","P","3">>,
      <<".","m","p","3">>,
      <<"m","p","3">>,
      <<"a",".","m","p","3",".","t","x","t">>,
      <<"a",".","t","x","t",".","W","a","v">>,
      <<"d",".","m","p","3","/","x">>,
      <<"a",".","w","a","v",".">> }

\* a word's probability as the model reports it, in 1/10000
WordLists == { <<>>, <<9000, 8000>>, <<9500>>, <<8125>> }

\* a segment of the speech model: its text and its words (no words: the
\* attribute is None or an empty list, which the code treats alike)
SpeechSegments == [text : Texts, words : WordLists]

\* n/d rounded to the nearest integer, ties to even (Python's round)
RoundDiv(n, d) ==
    LET q == n \div d
        r == n % d
    IN  IF 2 * r < d THEN q
        ELSE IF 2 * r > d THEN q + 1
        ELSE IF q % 2 = 0 THEN q ELSE q + 1

\* round(word.probability, 3), in 1/1000
Round3(p) == RoundDiv(p, 10)

RECURSIVE SumSeq(_)
SumSeq(s) == IF s = <<>> THEN 0 ELSE Head(s) + SumSeq(Tail(s))

\* Python's None where a number is expected
NoneNum == -1

\* the dictionary a retained segment becomes; "words" is a key of it only
\* when the segment has words
SegmentDict(segment_text, segment) ==
    [text      |-> segment_text,
     has_words |-> segment.words # <<>>,
     words     |-> [i \in 1..Len(segment.words) |-> Round3(segment.words[i])]]

\* all_word_probs: the probabilities of the segments that have "words"
RECURSIVE AllWordProbs(_)
AllWordProbs(segments_list) ==
    IF segments_list = <<>> THEN <<>>
    ELSE (IF Head(segments_list).has_words THEN Head(segments_list).words ELSE <<>>)
         \o AllWordProbs(Tail(segments_list))

\* avg_confidence of transcribe_file
AvgConfidence(segments_list) ==
    IF segments_list # <<>> /\ segments_list[1].has_words
    THEN LET all_word_probs == AllWordProbs(segments_list)
         IN  IF all_word_probs # <<>>
             THEN RoundDiv(SumSeq(all_word_probs), Len(all_word_probs))
             ELSE NoneNum
    ELSE NoneNum

\* the result dictionaries of transcribe_file and transcribe_uploaded_file
SuccessResult(transcript_text, segments_list) ==
    [success            |-> TRUE,
     transcript         |-> transcript_text,
     error              |-> None,
     segments           |-> segments_list,
     word_count         |-> IF transcript_text # <<>> THEN SplitCount(transcript_text, FALSE) ELSE 0,
     character_count    |-> Len(transcript_text),
     segment_count      |-> Len(segments_list),
     average_confidence |-> AvgConfidence(segments_list)]

\* a failure result that carries an empty transcript instead of None
FailureResult_EmptyTranscript(error_msg) ==
    [success            |-> FALSE,
     transcript         |-> <<>>,
     error              |-> error_msg,
     segments           |-> None,
     word_count         |-> NoneNum,
     character_count    |-> NoneNum,
     segment_count      |-> NoneNum,
     average_confidence |-> NoneNum]

FailureResult(error_msg) ==
    [success            |-> FALSE,
     transcript         |-> None,
     error              |-> error_msg,
     segments           |-> None,
     word_count         |-> NoneNum,
     character_count    |-> NoneNum,
     segment_count      |-> NoneNum,
     average_confidence |-> NoneNum]

\* f"Transcription failed: {str(e)}"
TranscriptionFailed(e) == <<"Transcription failed: ", e>>

\* no result yet
NoResult == [FailureResult(None) EXCEPT !.error = <<"unset">>]

\* messages of the exceptions the speech model raises
ModelErrors == {"decode error"}

(***************************************************************************)
(* State                                                                   *)
(***************************************************************************)
VARIABLES
    service,        \* which program of the repository this run is
    calls,          \* the collaborator calls of the current operation, in order
    ex,             \* extract_video_id called on its own
    yt,             \* the frame of get_youtube_transcript
    processor,      \* the AudioProcessor instance: "none" or "ready"
    tf,             \* the frame of transcribe_file
    up,             \* the frame of transcribe_uploaded_file
    whisper_model,  \* main.py's global: "unloaded", "loaded" or "None"
    temp_audio,     \* the files in TEMP_AUDIO_DIR
    uuids,          \* how many names uuid4 has produced
    ct,             \* the frame of create_transcription
    rt,             \* the frame of read_root
    reqs,           \* the served application: the request of each client
    loop            \* the request whose coroutine the event loop runs, 0 if none

vars == <<service, calls, ex, yt, processor, tf, up, whisper_model, temp_audio,
          uuids, ct, rt, reqs, loop>>

Services == {"youtube_fetch", "audio_utils", "main"}

\* an entry of the call log
Called(fn) == [fn |-> fn, language_code |-> "", is_generated |-> FALSE]
CalledOn(fn, t) == [fn |-> fn, language_code |-> t.language_code, is_generated |-> t.is_generated]

ExIdle == [pc |-> "idle", case |-> [host |-> <<>>, shape |-> "", id |-> <<>>],
           url |-> <<>>, ret |-> None]

YtIdle == [pc |-> "idle", url |-> <<>>, languages |-> <<>>, video_id |-> None,
           transcript_list |-> EmptyList, transcript |-> NoTranscriptFound,
           transcript_data |-> <<>>, listed |-> FALSE, caught |-> "", ret |-> None,
           raised |-> FALSE]

TfIdle == [pc |-> "idle", caller |-> "", stream |-> <<>>, segments_list |-> <<>>,
           full_transcript |-> <<>>, total_words |-> 0, caught |-> "",
           result |-> NoResult, raised |-> FALSE]

UpIdle == [pc |-> "idle", filename |-> <<>>, tmp_created |-> FALSE, tmp_exists |-> FALSE,
           unlink_attempted |-> FALSE, unlink_failed |-> FALSE, pending |-> "",
           result |-> NoResult, returned |-> FALSE, raised |-> FALSE]

CtIdle == [pc |-> "idle", unique_id |-> 0, transcription_parts |-> <<>>,
           caught |-> "", status |-> 0, detail |-> "", transcription |-> None,
           raised |-> FALSE]

RtIdle == [pc |-> "idle", message |-> ""]

Clients == 1..MaxClients

\* a client that has sent nothing
ReqIdle == [kind |-> "", pc |-> "none", unique_id |-> 0, segments |-> 0, status |-> 0]

Init ==
    /\ service \in Services
    /\ calls = <<>>
    /\ ex = ExIdle
    /\ yt = YtIdle
    /\ processor = "none"
    /\ tf = TfIdle
    /\ up = UpIdle
    /\ whisper_model = "unloaded"
    /\ temp_audio = {}
    /\ uuids = 0
    /\ ct = CtIdle
    /\ rt = RtIdle
    /\ reqs = [r \in Clients |-> ReqIdle]
    /\ loop = 0

(***************************************************************************)
(* youtube_fetch.py                                                        *)
(***************************************************************************)
YtVars == <<processor, tf, up, whisper_model, temp_audio, uuids, ct, rt, reqs, loop>>

FetchIdle == service = "youtube_fetch" /\ ex.pc = "idle" /\ yt.pc = "idle"

\* extract_video_id(url) called with one of the URL cases
ExtractCall ==
    /\ FetchIdle
    /\ \E c \in UrlCases :
        ex' = [pc |-> "done", case |-> c, url |-> UrlOf(c),
               ret |-> extract_video_id(UrlOf(c))]
    /\ UNCHANGED <<service, calls, yt>>
    /\ UNCHANGED YtVars

ExtractReturn ==
    /\ ex.pc = "done"
    /\ ex' = ExIdle
    /\ UNCHANGED <<service, calls, yt>>
    /\ UNCHANGED YtVars

\* the URLs get_youtube_transcript is called with
YtUrlCases ==
    { [host |-> HostWww, shape |-> "watch", id |-> <<"a","B","_","1">>],
      [host |-> HostShort, shape |-> "short", id |-> <<"Z","-","9">>],
      [host |-> HostWww, shape |-> "root", id |-> <<"Z","-","9">>] }

\* get_youtube_transcript(url, languages) is entered
YtCall ==
    /\ FetchIdle
    /\ \E c \in YtUrlCases, langs \in LanguageLists :
        yt' = [YtIdle EXCEPT !.pc = "extract", !.url = UrlOf(c), !.languages = langs]
    /\ calls' = <<>>
    /\ UNCHANGED <<service, ex>>
    /\ UNCHANGED YtVars

\* lines 23-27: video_id = extract_video_id(url); None returns None
YtExtract ==
    /\ yt.pc = "extract"
    /\ LET video_id == extract_video_id(yt.url)
       IN  yt' = IF video_id = None
                 THEN [yt EXCEPT !.pc = "done", !.ret = None]
                 ELSE [yt EXCEPT !.pc = "list", !.video_id = video_id]
    /\ UNCHANGED <<service, calls, ex>>
    /\ UNCHANGED YtVars

\* YtList where an enumeration failure other than TranscriptsDisabled is
\* survived: the lookups go on over an empty track list
YtList_FallsThrough ==
    /\ yt.pc = "list"
    /\ calls' = Append(calls, Called("list"))
    /\ \/ \E tl \in TranscriptLists :
            yt' = [yt EXCEPT !.pc = "find", !.transcript_list = tl, !.listed = TRUE]
       \/ \E e \in ListErrors :
            yt' = IF e = "TranscriptsDisabled"
                  THEN [yt EXCEPT !.pc = "done", !.caught = e, !.ret = None]
                  ELSE [yt EXCEPT !.pc = "find", !.caught = e]
    /\ UNCHANGED <<service, ex>>
    /\ UNCHANGED YtVars

\* lines 32-33 and the handlers of lines 55-64: api.list(video_id) returns a
\* transcript list or raises; every exception is caught and None returned
YtList ==
    /\ yt.pc = "list"
    /\ calls' = Append(calls, Called("list"))
    /\ \/ \E tl \in TranscriptLists :
            yt' = [yt EXCEPT !.pc = "find", !.transcript_list = tl, !.listed = TRUE]
       \/ \E e \in ListErrors :
            yt' = [yt EXCEPT !.pc = "done", !.caught = e, !.ret = None]
    /\ UNCHANGED <<service, ex>>
    /\ UNCHANGED YtVars

\* YtFindTranscript with the fallback lost: NoTranscriptFound of the first
\* lookup returns None at once
YtFindTranscript_GivesUp ==
    /\ yt.pc = "find"
    /\ calls' = Append(calls, Called("find_transcript"))
    /\ LET t == find_transcript(yt.transcript_list, yt.languages)
       IN  yt' = IF t = NoTranscriptFound
                 THEN [yt EXCEPT !.pc = "done", !.caught = "NoTranscriptFound", !.ret = None]
                 ELSE [yt EXCEPT !.pc = "fetch", !.transcript = t]
    /\ UNCHANGED <<service, ex>>
    /\ UNCHANGED YtVars

\* lines 37-39: transcript_list.find_transcript(languages)
YtFindTranscript ==
    /\ yt.pc = "find"
    /\ calls' = Append(calls, Called("find_transcript"))
    /\ LET t == find_transcript(yt.transcript_list, yt.languages)
       IN  yt' = IF t = NoTranscriptFound
                 THEN [yt EXCEPT !.pc = "find_generated"]
                 ELSE [yt EXCEPT !.pc = "fetch", !.transcript = t]
    /\ UNCHANGED <<service, ex>>
    /\ UNCHANGED YtVars

\* lines 41-45: transcript_list.find_generated_transcript(languages);
\* NoTranscriptFound returns None
YtFindGenerated ==
    /\ yt.pc = "find_generated"
    /\ calls' = Append(calls, Called("find_generated_transcript"))
    /\ LET t == find_generated_transcript(yt.transcript_list, yt.languages)
       IN  yt' = IF t = NoTranscriptFound
                 THEN [yt EXCEPT !.pc = "done", !.caught = "NoTranscriptFound", !.ret = None]
                 ELSE [yt EXCEPT !.pc = "fetch", !.transcript = t]
    /\ UNCHANGED <<service, ex>>
    /\ UNCHANGED YtVars

\* line 48 and the handler of lines 61-64: transcript.fetch()
YtFetch ==
    /\ yt.pc = "fetch"
    /\ calls' = Append(calls, CalledOn("fetch", yt.transcript))
    /\ \/ \E data \in TextStreams :
            yt' = [yt EXCEPT !.pc = "join", !.transcript_data = data]
       \/ \E e \in FetchErrors :
            yt' = [yt EXCEPT !.pc = "done", !.caught = e, !.ret = None]
    /\ UNCHANGED <<service, ex>>
    /\ UNCHANGED YtVars

\* lines 51-53: the segments' texts joined and returned
YtJoin ==
    /\ yt.pc = "join"
    /\ yt' = [yt EXCEPT !.pc = "done", !.ret = JoinCaption(yt.transcript_data)]
    /\ UNCHANGED <<service, calls, ex>>
    /\ UNCHANGED YtVars

YtReturn ==
    /\ yt.pc = "done"
    /\ yt' = YtIdle
    /\ calls' = <<>>
    /\ UNCHANGED <<service, ex>>
    /\ UNCHANGED YtVars

NextFetch ==
    \/ ExtractCall \/ ExtractReturn
    \/ YtCall \/ YtExtract \/ YtList \/ YtFindTranscript \/ YtFindGenerated
    \/ YtFetch \/ YtJoin \/ YtReturn

(***************************************************************************)
(* audio_utils.py : AudioProcessor                                         *)
(***************************************************************************)
AudioVars == <<ex, yt, whisper_model, temp_audio, uuids, ct, rt, reqs, loop>>

AudioIdle == service = "audio_utils" /\ tf.pc = "idle" /\ up.pc = "idle"

\* lines 25-37: AudioProcessor(...) loads the model; an exception of
\* WhisperModel leaves the constructor, and no instance exists
ProcessorInit ==
    /\ service = "audio_utils"
    /\ processor = "none"
    /\ processor' \in {"ready", "failed"}
    /\ UNCHANGED <<service, calls, tf, up>>
    /\ UNCHANGED AudioVars

\* transcribe_file(file_path) called by a user of the processor
TfCall ==
    /\ AudioIdle
    /\ processor = "ready"
    /\ tf' = [TfIdle EXCEPT !.pc = "transcribe", !.caller = "direct"]
    /\ calls' = <<>>
    /\ UNCHANGED <<service, processor, up>>
    /\ UNCHANGED AudioVars

\* lines 87-92 and 157-165: self.model.transcribe(...) returns the segment
\* generator, or raises and the failure result is returned
TfTranscribe ==
    /\ tf.pc = "transcribe"
    /\ calls' = Append(calls, Called("transcribe"))
    /\ \/ tf' = [tf EXCEPT !.pc = "loop"]
       \/ \E e \in ModelErrors :
            tf' = [tf EXCEPT !.pc = "done", !.caught = e,
                            !.result = FailureResult(TranscriptionFailed(e))]
    /\ UNCHANGED <<service, processor, up>>
    /\ UNCHANGED AudioVars

\* lines 99-124: one iteration of the loop over the generator
TfNextSegment ==
    /\ tf.pc = "loop"
    /\ Len(tf.stream) < MaxSegs
    /\ \E segment \in SpeechSegments :
        LET segment_text == Strip(segment.text)
            segment_dict == SegmentDict(segment_text, segment)
        IN  tf' = IF segment_text # <<>>
                  THEN [tf EXCEPT !.stream = Append(@, segment),
                                  !.segments_list = Append(@, segment_dict),
                                  !.full_transcript = Append(@, segment_text),
                                  !.total_words = @ + Len(segment_dict.words)]
                  ELSE [tf EXCEPT !.stream = Append(@, segment)]
    /\ UNCHANGED <<service, calls, processor, up>>
    /\ UNCHANGED AudioVars

\* TfStreamRaises with the loop outside the try block: the exception leaves
\* transcribe_file
TfStreamRaises_Propagates ==
    /\ tf.pc = "loop"
    /\ \E e \in ModelErrors :
        tf' = [tf EXCEPT !.pc = "done", !.caught = e, !.raised = TRUE]
    /\ UNCHANGED <<service, calls, processor, up>>
    /\ UNCHANGED AudioVars

\* the generator raises while it is consumed (lines 99, 157-165)
TfStreamRaises ==
    /\ tf.pc = "loop"
    /\ \E e \in ModelErrors :
        tf' = [tf EXCEPT !.pc = "done", !.caught = e,
                        !.result = FailureResult(TranscriptionFailed(e))]
    /\ UNCHANGED <<service, calls, processor, up>>
    /\ UNCHANGED AudioVars

\* lines 127-155: the generator is exhausted; the success result is built
TfFinish ==
    /\ tf.pc = "loop"
    /\ LET transcript_text == Join(<<" ">>, tf.full_transcript)
       IN  tf' = [tf EXCEPT !.pc = "done",
                            !.result = SuccessResult(transcript_text, tf.segments_list)]
    /\ UNCHANGED <<service, calls, processor, up>>
    /\ UNCHANGED AudioVars

TfReturn ==
    /\ tf.pc = "done"
    /\ tf.caller = "direct"
    /\ tf' = TfIdle
    /\ calls' = <<>>
    /\ UNCHANGED <<service, processor, up>>
    /\ UNCHANGED AudioVars

\* transcribe_uploaded_file(file_content, filename) is entered
UpCall ==
    /\ AudioIdle
    /\ processor = "ready"
    /\ \E filename \in Filenames :
        up' = [UpIdle EXCEPT !.pc = "validate", !.filename = filename]
    /\ calls' = <<>>
    /\ UNCHANGED <<service, processor, tf>>
    /\ UNCHANGED AudioVars

\* lines 187-196: validation; an invalid file name returns the failure result
UpValidate ==
    /\ up.pc = "validate"
    /\ LET v == validate_audio_file(up.filename)
       IN  up' = IF ~v.is_valid
                 THEN [up EXCEPT !.pc = "done", !.result = FailureResult(v.error_msg),
                                 !.returned = TRUE]
                 ELSE [up EXCEPT !.pc = "mktemp"]
    /\ UNCHANGED <<service, calls, processor, tf>>
    /\ UNCHANGED AudioVars

\* lines 199-202: NamedTemporaryFile(delete=False, suffix=...) creates the
\* file, or raises OSError before any file exists
UpCreateTemp ==
    /\ up.pc = "mktemp"
    /\ \/ up' = [up EXCEPT !.pc = "write", !.tmp_created = TRUE, !.tmp_exists = TRUE]
       \/ up' = [up EXCEPT !.pc = "done", !.pending = "OSError", !.raised = TRUE]
    /\ UNCHANGED <<service, calls, processor, tf>>
    /\ UNCHANGED AudioVars

\* UpWrite with the write outside the try block: an OSError leaves the
\* function and the file stays
UpWrite_SkipsCleanup ==
    /\ up.pc = "write"
    /\ \/ up' = [up EXCEPT !.pc = "call"]
       \/ up' = [up EXCEPT !.pc = "done", !.pending = "OSError", !.raised = TRUE]
    /\ UNCHANGED <<service, calls, processor, tf>>
    /\ UNCHANGED AudioVars

\* lines 205-206: write and flush; an OSError goes to the finally block
UpWrite ==
    /\ up.pc = "write"
    /\ \/ up' = [up EXCEPT !.pc = "call"]
       \/ up' = [up EXCEPT !.pc = "finally", !.pending = "OSError"]
    /\ UNCHANGED <<service, calls, processor, tf>>
    /\ UNCHANGED AudioVars

\* lines 209-213: await self.transcribe_file(tmp_file.name, ...)
UpTranscribe ==
    /\ up.pc = "call"
    /\ up' = [up EXCEPT !.pc = "await"]
    /\ tf' = [TfIdle EXCEPT !.pc = "transcribe", !.caller = "upload"]
    /\ UNCHANGED <<service, calls, processor>>
    /\ UNCHANGED AudioVars

\* line 215: transcribe_file has returned; its result is the value to return
UpResume ==
    /\ up.pc = "await"
    /\ tf.pc = "done"
    /\ up' = [up EXCEPT !.pc = "finally", !.result = tf.result]
    /\ tf' = TfIdle
    /\ UNCHANGED <<service, calls, processor>>
    /\ UNCHANGED AudioVars

\* lines 217-222: os.unlink(tmp_file.name); an OSError is passed over. Then
\* the function returns the result, or the pending exception goes on
UpFinally ==
    /\ up.pc = "finally"
    /\ \E unlinked \in BOOLEAN :
        up' = [up EXCEPT !.pc = "done",
                         !.unlink_attempted = TRUE,
                         !.unlink_failed = ~unlinked,
                         !.tmp_exists = IF unlinked THEN FALSE ELSE @,
                         !.returned = (up.pending = ""),
                         !.raised = (up.pending # "")]
    /\ UNCHANGED <<service, calls, processor, tf>>
    /\ UNCHANGED AudioVars

UpReturn ==
    /\ up.pc = "done"
    /\ up' = UpIdle
    /\ calls' = <<>>
    /\ UNCHANGED <<service, processor, tf>>
    /\ UNCHANGED AudioVars

NextAudio ==
    \/ ProcessorInit
    \/ TfCall \/ TfTranscribe \/ TfNextSegment \/ TfStreamRaises \/ TfFinish \/ TfReturn
    \/ UpCall \/ UpValidate \/ UpCreateTemp \/ UpWrite \/ UpTranscribe \/ UpResume
    \/ UpFinally \/ UpReturn

(***************************************************************************)
(* main.py                                                                 *)
(***************************************************************************)
MainVars == <<ex, yt, processor, tf, up, reqs, loop>>

MainIdle ==
    service = "main" /\ whisper_model # "unloaded" /\ ct.pc = "idle" /\ rt.pc = "idle"

\* lines 118-125: the model is loaded when the module is imported; an
\* exception sets whisper_model to None and the import goes on
ModelLoading ==
    /\ service = "main"
    /\ whisper_model = "unloaded"
    /\ whisper_model' \in {"loaded", "None"}
    /\ UNCHANGED <<service, calls, temp_audio, uuids, ct, rt>>
    /\ UNCHANGED MainVars

\* lines 157-162: GET /
read_root ==
    /\ MainIdle
    /\ rt' = [pc |-> "done", message |-> "Welcome to the YouTube Transcription API"]
    /\ UNCHANGED <<service, calls, whisper_model, temp_audio, uuids, ct>>
    /\ UNCHANGED MainVars

RootReturn ==
    /\ rt.pc = "done"
    /\ rt' = RtIdle
    /\ UNCHANGED <<service, calls, whisper_model, temp_audio, uuids, ct>>
    /\ UNCHANGED MainVars

\* the files of TEMP_AUDIO_DIR written under a request's unique name
AudioFile(id, ext) == [id |-> id, ext |-> ext]

\* HTTPException(status_code=500, detail=...)
HttpError(frame, detail) == [frame EXCEPT !.status = 500, !.detail = detail]

DetailNoModel  == "Whisper model is not available."
DetailNoFile   == "Failed to download audio file."
DetailInternal == "An internal error occurred: "

\* POST /transcribe is entered
CtCall ==
    /\ MainIdle
    /\ uuids < MaxRequests
    /\ ct' = [CtIdle EXCEPT !.pc = "check_model"]
    /\ calls' = <<>>
    /\ UNCHANGED <<service, whisper_model, temp_audio, uuids, rt>>
    /\ UNCHANGED MainVars

\* CtCheckModel without the test of whisper_model
CtCheckModel_NoGuard ==
    /\ ct.pc = "check_model"
    /\ uuids' = uuids + 1
    /\ ct' = [ct EXCEPT !.pc = "download", !.unique_id = uuids + 1]
    /\ UNCHANGED <<service, calls, whisper_model, temp_audio, rt>>
    /\ UNCHANGED MainVars

\* lines 170-176: without a model the request is answered 500 at once;
\* otherwise the request gets its unique file name
CtCheckModel ==
    /\ ct.pc = "check_model"
    /\ IF whisper_model # "loaded"
       THEN /\ ct' = [HttpError(ct, DetailNoModel) EXCEPT !.pc = "done"]
            /\ UNCHANGED uuids
       ELSE /\ uuids' = uuids + 1
            /\ ct' = [ct EXCEPT !.pc = "download", !.unique_id = uuids + 1]
    /\ UNCHANGED <<service, calls, whisper_model, temp_audio, rt>>
    /\ UNCHANGED MainVars

\* lines 199-219 and 245-264: ydl.download writes files named after the
\* request (the source audio, the converted .mp3) and returns or raises;
\* an exception becomes the 500 answer
CtDownload ==
    /\ ct.pc = "download"
    /\ calls' = Append(calls, Called("download"))
    /\ \E written \in SUBSET {"webm", "mp3"}, fails \in BOOLEAN :
        /\ temp_audio' = temp_audio \cup {AudioFile(ct.unique_id, x) : x \in written}
        /\ ct' = IF fails
                 THEN [HttpError(ct, DetailInternal) EXCEPT !.pc = "finally",
                                                            !.caught = "download"]
                 ELSE [ct EXCEPT !.pc = "exists"]
    /\ UNCHANGED <<service, whisper_model, uuids, rt>>
    /\ UNCHANGED MainVars

\* lines 221-224: the .mp3 must exist
CtExists ==
    /\ ct.pc = "exists"
    /\ ct' = IF AudioFile(ct.unique_id, "mp3") \notin temp_audio
             THEN [HttpError(ct, DetailNoFile) EXCEPT !.pc = "finally"]
             ELSE [ct EXCEPT !.pc = "transcribe"]
    /\ UNCHANGED <<service, calls, whisper_model, temp_audio, uuids, rt>>
    /\ UNCHANGED MainVars

\* line 228: whisper_model.transcribe(...) returns the generator or raises
CtTranscribe ==
    /\ ct.pc = "transcribe"
    /\ calls' = Append(calls, Called("transcribe"))
    /\ \/ ct' = [ct EXCEPT !.pc = "loop"]
       \/ ct' = [HttpError(ct, DetailInternal) EXCEPT !.pc = "finally",
                                                      !.caught = "transcribe"]
    /\ UNCHANGED <<service, whisper_model, temp_audio, uuids, rt>>
    /\ UNCHANGED MainVars

\* line 234: one segment of the generator is consumed
CtNextSegment ==
    /\ ct.pc = "loop"
    /\ Len(ct.transcription_parts) < MaxSegs
    /\ \E text \in Texts :
        ct' = [ct EXCEPT !.transcription_parts = Append(@, text)]
    /\ UNCHANGED <<service, calls, whisper_model, temp_audio, uuids, rt>>
    /\ UNCHANGED MainVars

\* line 234: the generator raises while it is consumed
CtStreamRaises ==
    /\ ct.pc = "loop"
    /\ ct' = [HttpError(ct, DetailInternal) EXCEPT !.pc = "finally", !.caught = "segments"]
    /\ UNCHANGED <<service, calls, whisper_model, temp_audio, uuids, rt>>
    /\ UNCHANGED MainVars

\* lines 235-240: "".join(parts).strip() is the transcription returned
CtFinish ==
    /\ ct.pc = "loop"
    /\ ct' = [ct EXCEPT !.pc = "finally", !.status = 200,
                        !.transcription = Strip(Join(<<>>, ct.transcription_parts))]
    /\ UNCHANGED <<service, calls, whisper_model, temp_audio, uuids, rt>>
    /\ UNCHANGED MainVars

\* lines 266-274: the .mp3 is removed when it exists; an OSError is logged
CtFinally ==
    /\ ct.pc = "finally"
    /\ ct' = [ct EXCEPT !.pc = "done"]
    /\ IF AudioFile(ct.unique_id, "mp3") \in temp_audio
       THEN \/ temp_audio' = temp_audio \ {AudioFile(ct.unique_id, "mp3")}
            \/ temp_audio' = temp_audio
       ELSE temp_audio' = temp_audio
    /\ UNCHANGED <<service, calls, whisper_model, uuids, rt>>
    /\ UNCHANGED MainVars

CtReturn ==
    /\ ct.pc = "done"
    /\ ct' = CtIdle
    /\ calls' = <<>>
    /\ UNCHANGED <<service, whisper_model, temp_audio, uuids, rt>>
    /\ UNCHANGED MainVars

NextMain ==
    \/ ModelLoading \/ read_root \/ RootReturn
    \/ CtCall \/ CtCheckModel \/ CtDownload \/ CtExists \/ CtTranscribe
    \/ CtNextSegment \/ CtStreamRaises \/ CtFinish \/ CtFinally \/ CtReturn

Next == NextFetch \/ NextAudio \/ NextMain

Spec == Init /\ [][Next]_vars

(***************************************************************************)
(* main.py served: the application object of line 128 is run by an ASGI    *)
(* server on one event loop. create_transcription is a coroutine function  *)
(* (async def, line 166) whose body has no await: once the loop has        *)
(* started it, the loop's thread executes it to its end. read_root is a    *)
(* plain function (def, line 158): the loop hands it to a worker thread    *)
(* and sends the answer when the thread is done.                           *)
(***************************************************************************)
ServerVars == <<service, calls, ex, yt, processor, tf, up, ct, rt>>

\* the import of main.py is over (lines 118-125) and the server accepts
Serving == service = "main" /\ whisper_model # "unloaded"

\* a client's request reaches the server
Arrive(r) ==
    /\ Serving
    /\ reqs[r].pc = "none"
    /\ \E kind \in {"transcribe", "root"} :
        reqs' = [reqs EXCEPT ![r] = [ReqIdle EXCEPT !.kind = kind, !.pc = "arrived"]]
    /\ UNCHANGED <<whisper_model, temp_audio, uuids, loop>>
    /\ UNCHANGED ServerVars

\* the start of a coroutine whatever the event loop is doing, as if every
\* request had a thread of its own
Dispatch_OwnThread(r) ==
    /\ reqs[r].kind = "transcribe"
    /\ reqs[r].pc = "arrived"
    /\ loop' = r
    /\ reqs' = [reqs EXCEPT ![r].pc = "check_model"]
    /\ UNCHANGED <<whisper_model, temp_audio, uuids>>
    /\ UNCHANGED ServerVars

\* lines 165-166: the idle event loop starts the coroutine of POST /transcribe
Dispatch(r) ==
    /\ reqs[r].kind = "transcribe"
    /\ reqs[r].pc = "arrived"
    /\ loop = 0
    /\ loop' = r
    /\ reqs' = [reqs EXCEPT ![r].pc = "check_model"]
    /\ UNCHANGED <<whisper_model, temp_audio, uuids>>
    /\ UNCHANGED ServerVars

\* the coroutine of request r is the one the loop's thread executes
Running(r) == loop = r

\* lines 170-176, as CtCheckModel; the HTTPException ends the coroutine
SrvCheckModel(r) ==
    /\ Running(r)
    /\ reqs[r].pc = "check_model"
    /\ IF whisper_model # "loaded"
       THEN /\ reqs' = [reqs EXCEPT ![r].pc = "done", ![r].status = 500]
            /\ loop' = 0
            /\ UNCHANGED uuids
       ELSE /\ uuids' = uuids + 1
            /\ reqs' = [reqs EXCEPT ![r].pc = "download", ![r].unique_id = uuids + 1]
            /\ UNCHANGED loop
    /\ UNCHANGED <<whisper_model, temp_audio>>
    /\ UNCHANGED ServerVars

\* lines 203-204: ydl.download is called, a blocking call of the loop's thread
SrvDownloadCall(r) ==
    /\ Running(r)
    /\ reqs[r].pc = "download"
    /\ reqs' = [reqs EXCEPT ![r].pc = "in_download"]
    /\ UNCHANGED <<whisper_model, temp_audio, uuids, loop>>
    /\ UNCHANGED ServerVars

\* lines 203-219, as CtDownload: the call returns or raises
SrvDownloadReturn(r) ==
    /\ Running(r)
    /\ reqs[r].pc = "in_download"
    /\ \E written \in SUBSET {"webm", "mp3"}, fails \in BOOLEAN :
        /\ temp_audio' = temp_audio \cup {AudioFile(reqs[r].unique_id, x) : x \in written}
        /\ reqs' = IF fails
                   THEN [reqs EXCEPT ![r].pc = "finally", ![r].status = 500]
                   ELSE [reqs EXCEPT ![r].pc = "exists"]
    /\ UNCHANGED <<whisper_model, uuids, loop>>
    /\ UNCHANGED ServerVars

\* lines 221-224, as CtExists
SrvExists(r) ==
    /\ Running(r)
    /\ reqs[r].pc = "exists"
    /\ reqs' = IF AudioFile(reqs[r].unique_id, "mp3") \notin temp_audio
               THEN [reqs EXCEPT ![r].pc = "finally", ![r].status = 500]
               ELSE [reqs EXCEPT ![r].pc = "transcribe"]
    /\ UNCHANGED <<whisper_model, temp_audio, uuids, loop>>
    /\ UNCHANGED ServerVars

\* line 228, as CtTranscribe: the shared model is entered
SrvTranscribe(r) ==
    /\ Running(r)
    /\ reqs[r].pc = "transcribe"
    /\ \/ reqs' = [reqs EXCEPT ![r].pc = "segments"]
       \/ reqs' = [reqs EXCEPT ![r].pc = "finally", ![r].status = 500]
    /\ UNCHANGED <<whisper_model, temp_audio, uuids, loop>>
    /\ UNCHANGED ServerVars

\* line 234, as CtNextSegment: the model decodes the next segment
SrvNextSegment(r) ==
    /\ Running(r)
    /\ reqs[r].pc = "segments"
    /\ reqs[r].segments < MaxSegs
    /\ reqs' = [reqs EXCEPT ![r].segments = @ + 1]
    /\ UNCHANGED <<whisper_model, temp_audio, uuids, loop>>
    /\ UNCHANGED ServerVars

\* line 234, as CtStreamRaises
SrvStreamRaises(r) ==
    /\ Running(r)
    /\ reqs[r].pc = "segments"
    /\ reqs' = [reqs EXCEPT ![r].pc = "finally", ![r].status = 500]
    /\ UNCHANGED <<whisper_model, temp_audio, uuids, loop>>
    /\ UNCHANGED ServerVars

\* lines 234-240, as CtFinish: the stream is exhausted
SrvFinish(r) ==
    /\ Running(r)
    /\ reqs[r].pc = "segments"
    /\ reqs' = [reqs EXCEPT ![r].pc = "finally", ![r].status = 200]
    /\ UNCHANGED <<whisper_model, temp_audio, uuids, loop>>
    /\ UNCHANGED ServerVars

\* lines 266-274, as CtFinally; the coroutine ends and the loop is idle again
SrvFinally(r) ==
    /\ Running(r)
    /\ reqs[r].pc = "finally"
    /\ reqs' = [reqs EXCEPT ![r].pc = "done"]
    /\ loop' = 0
    /\ IF AudioFile(reqs[r].unique_id, "mp3") \in temp_audio
       THEN \/ temp_audio' = temp_audio \ {AudioFile(reqs[r].unique_id, "mp3")}
            \/ temp_audio' = temp_audio
       ELSE temp_audio' = temp_audio
    /\ UNCHANGED <<whisper_model, uuids>>
    /\ UNCHANGED ServerVars

\* lines 157-158: GET / is a plain function, the idle event loop submits it
\* to the thread pool
RootDispatch(r) ==
    /\ reqs[r].kind = "root"
    /\ reqs[r].pc = "arrived"
    /\ loop = 0
    /\ reqs' = [reqs EXCEPT ![r].pc = "threadpool"]
    /\ UNCHANGED <<whisper_model, temp_audio, uuids, loop>>
    /\ UNCHANGED ServerVars

\* lines 159-162: a worker thread runs read_root
RootRun(r) ==
    /\ reqs[r].kind = "root"
    /\ reqs[r].pc = "threadpool"
    /\ reqs' = [reqs EXCEPT ![r].pc = "ready"]
    /\ UNCHANGED <<whisper_model, temp_audio, uuids, loop>>
    /\ UNCHANGED ServerVars

\* the idle event loop resumes the request and sends the answer of read_root
RootRespond(r) ==
    /\ reqs[r].kind = "root"
    /\ reqs[r].pc = "ready"
    /\ loop = 0
    /\ reqs' = [reqs EXCEPT ![r].pc = "done", ![r].status = 200]
    /\ UNCHANGED <<whisper_model, temp_audio, uuids, loop>>
    /\ UNCHANGED ServerVars

InitServer == Init /\ service = "main"

NextServer ==
    \/ ModelLoading
    \/ \E r \in Clients :
        \/ Arrive(r) \/ Dispatch(r) \/ SrvCheckModel(r)
        \/ SrvDownloadCall(r) \/ SrvDownloadReturn(r) \/ SrvExists(r)
        \/ SrvTranscribe(r) \/ SrvNextSegment(r) \/ SrvStreamRaises(r)
        \/ SrvFinish(r) \/ SrvFinally(r)
        \/ RootDispatch(r) \/ RootRun(r) \/ RootRespond(r)

SpecServer == InitServer /\ [][NextServer]_vars

(***************************************************************************)
(* Properties                                                              *)
(***************************************************************************)
\* the language codes of a list
CodesOf(langs) == {langs[i] : i \in 1..Len(langs)}

\* the calls of the log with the given name
CallsNamed(fn) == {i \in 1..Len(calls) : calls[i].fn = fn}

\* the names of the calls, in order
CallNames == [i \in 1..Len(calls) |-> calls[i].fn]

\* C1: priority law of get_youtube_transcript. Whenever the enumerated tracks
\* hold a manual and a generated track of one preferred language, no
\* generated track is fetched, and a returned text comes from a manual track.
C1_PriorityLaw ==
    (/\ yt.listed
     /\ \E l \in CodesOf(yt.languages) :
            l \in yt.transcript_list.manual /\ l \in yt.transcript_list.generated)
    => /\ \A i \in CallsNamed("fetch") : ~calls[i].is_generated
       /\ (yt.pc = "done" /\ yt.ret # None) => ~yt.transcript.is_generated

\* C2 as the specification states it: with no manual and no generated track,
\* failure is reported only after the manual lookup, the generated lookup and
\* the legacy flat fetch have been attempted, in that order.
C2_LegacyFetchAttempted ==
    (yt.pc = "done" /\ yt.listed /\ yt.transcript_list = EmptyList)
    => /\ yt.ret = None
       /\ CallNames = <<"list", "find_transcript", "find_generated_transcript",
                        "legacy_flat_fetch">>

\* C2 amended: with no track in a preferred language (none at all included),
\* None is returned after exactly the enumeration, the find_transcript lookup
\* and the find_generated_transcript lookup, in that order; nothing is
\* fetched and no further strategy is attempted.
C2_TwoLookupsThenFailure ==
    (/\ yt.pc = "done"
     /\ yt.listed
     /\ CodesOf(yt.languages)
          \cap (yt.transcript_list.manual \cup yt.transcript_list.generated) = {})
    => /\ yt.ret = None
       /\ CallNames = <<"list", "find_transcript", "find_generated_transcript">>

C2_Witness ==
    /\ yt.pc = "done"
    /\ yt.listed
    /\ yt.transcript_list = EmptyList
    /\ yt.ret = None
    /\ Len(calls) = 3

\* the identifier the specification gives a URL case: the id of a supported
\* shape on a YouTube host, absent otherwise
ExpectedId(c) ==
    IF \/ c.host \in YoutubeHosts /\ c.shape \in WatchShapes
       \/ c.host = HostShort /\ c.shape \in ShortShapes
    THEN c.id
    ELSE None

\* C9: extract_video_id returns the identifier of every URL of a supported
\* shape (the v parameter in any position), and absent for every URL of
\* another host or without identifier.
C9_ExtractVideoId ==
    ex.pc = "done" => ex.ret = ExpectedId(ex.case)


\* C3: transcribe_uploaded_file with an empty file name, or one whose
\* lower-cased extension is not supported, returns a failure result with an
\* error; no temporary file is created and the transcriber is never called.
C3_InvalidNameRejected ==
    (/\ up.pc # "idle"
     /\ \/ up.filename = <<>>
        \/ Lower(PathSuffix(up.filename)) \notin SUPPORTED_FORMATS)
    => /\ up.pc \in {"validate", "done"}
       /\ ~up.tmp_created /\ ~up.tmp_exists
       /\ tf.pc = "idle"
       /\ CallsNamed("transcribe") = {}
       /\ up.pc = "done" =>
            /\ up.returned /\ ~up.raised
            /\ ~up.result.success
            /\ up.result.error \in {MsgNoFilename, MsgUnsupported}

C3_Witness ==
    /\ up.pc = "done"
    /\ up.filename = <<"n","o","t","e","s",".","t","x","t">>
    /\ up.returned
    /\ ~up.result.success
    /\ up.result.error = MsgUnsupported

\* the failure results of a speech model that raised
ModelFailures == {FailureResult(TranscriptionFailed(e)) : e \in ModelErrors}

C4_Released ==
    /\ (up.pc = "done" /\ up.tmp_created) => up.unlink_attempted
    /\ (up.pc = "done" /\ up.tmp_created /\ ~up.unlink_failed) => ~up.tmp_exists
    /\ (up.pc = "done" /\ up.tmp_created /\ up.pending = "") => (up.returned /\ ~up.raised)
    /\ (up.pc = "done" /\ up.result \in ModelFailures) => (up.returned /\ ~up.result.success)

C4_ResultKept ==
    up.pc = "finally" => up'.result = up.result

\* C4: once the temporary file exists, its deletion is attempted on every
\* exit path of transcribe_uploaded_file (success, transcriber exception,
\* failed write); a deletion that succeeds leaves no file; when the model
\* raises, the result returned has success false; a failing deletion is passed
\* over: the function still returns, and returns the result it had.
C4_TempFileReleased == []C4_Released /\ [][C4_ResultKept]_vars

C4_Witness ==
    /\ up.pc = "done"
    /\ up.tmp_created
    /\ up.result \in ModelFailures
    /\ up.unlink_attempted
    /\ ~up.tmp_exists
    /\ up.returned

\* a model failure whose file could not be deleted is returned all the same
C4_WitnessUnlinkFails ==
    /\ up.pc = "done"
    /\ up.result \in ModelFailures
    /\ up.unlink_failed
    /\ up.tmp_exists
    /\ up.returned

\* C5: no exception of a collaborator leaves get_youtube_transcript,
\* transcribe_file or create_transcription: the first returns None, the
\* second the failure result with the message, the third answers 500.
C5_NoRawException ==
    /\ ~yt.raised /\ ~tf.raised /\ ~ct.raised
    /\ (yt.pc = "done" /\ yt.caught # "") => yt.ret = None
    /\ (tf.pc = "done" /\ tf.caught # "") =>
            /\ ~tf.result.success
            /\ tf.result.error = <<"Transcription failed: ", tf.caught>>
    /\ (ct.pc \in {"finally", "done"} /\ ct.caught # "") =>
            /\ ct.status = 500
            /\ ct.transcription = None

\* the speech model raises after a segment was consumed
C5_Witness ==
    /\ tf.pc = "done"
    /\ tf.caught # ""
    /\ Len(tf.stream) >= 1
    /\ ~tf.result.success

\* the caption collaborator raises at the fetch
C5_WitnessCaption ==
    /\ yt.pc = "done"
    /\ yt.caught \in FetchErrors
    /\ CallsNamed("fetch") # {}
    /\ yt.ret = None

\* the downloader raises
C5_WitnessHttp ==
    /\ ct.pc = "done"
    /\ ct.caught = "download"
    /\ ct.status = 500

\* success, transcript and error of a result agree
ResultWellFormed(r) ==
    /\ r.success <=> (r.transcript # None /\ r.error = None)
    /\ ~r.success <=> (r.error # None /\ r.transcript = None)

\* C6: in every result transcribe_file and transcribe_uploaded_file return,
\* success is true exactly when the transcript is present and no error is,
\* and false exactly when an error is present and the transcript is absent.
C6_ResultInvariant ==
    /\ tf.pc = "done" => ResultWellFormed(tf.result)
    /\ (up.pc = "done" /\ up.returned) => ResultWellFormed(up.result)

C6_Witness ==
    /\ up.pc = "done"
    /\ up.returned
    /\ up.result.success
    /\ up.result.transcript # <<>>

C6_WitnessFailure ==
    /\ tf.pc = "done"
    /\ ~tf.result.success
    /\ tf.result.transcript = None

\* a text without its leading and trailing whitespace, by positions
Trimmed(t) ==
    LET solid == {i \in 1..Len(t) : t[i] \notin Whitespace}
    IN  IF solid = {} THEN <<>> ELSE SubSeq(t, SetMin(solid), SetMax(solid))

\* the trimmed texts that are not empty, in order
RECURSIVE Retained(_)
Retained(texts) ==
    IF texts = <<>> THEN <<>>
    ELSE (IF Trimmed(Head(texts)) = <<>> THEN <<>> ELSE <<Trimmed(Head(texts))>>)
         \o Retained(Tail(texts))

\* where part i starts in the single-space join of parts, less one
RECURSIVE Offset(_, _)
Offset(parts, i) ==
    IF i = 1 THEN 0 ELSE Offset(parts, i - 1) + Len(parts[i - 1]) + 1

\* text is the parts in order, one space between neighbours, nothing else
IsSpaceJoin(text, parts) ==
    /\ Len(text) = IF parts = <<>> THEN 0
                   ELSE Offset(parts, Len(parts)) + Len(parts[Len(parts)])
    /\ \A i \in 1..Len(parts) :
        /\ \A k \in 1..Len(parts[i]) : text[Offset(parts, i) + k] = parts[i][k]
        /\ i > 1 => text[Offset(parts, i)] = " "

\* the texts of the segments the speech model yielded
StreamTexts == [i \in 1..Len(tf.stream) |-> tf.stream[i].text]

ModelPathNormalized ==
    (tf.pc = "done" /\ tf.result.success)
    => IsSpaceJoin(tf.result.transcript, Retained(StreamTexts))

\* C7 as the specification states it: on the model path and on the caption
\* path alike the text is the single-space join of the segment texts that are
\* not empty after trimming.
C7_BothPathsDropEmpty ==
    /\ ModelPathNormalized
    /\ (yt.pc = "done" /\ yt.ret # None)
       => IsSpaceJoin(yt.ret, Retained(yt.transcript_data))

\* C7 amended: transcribe_file joins, with single spaces, exactly the trimmed
\* segment texts that are not empty; get_youtube_transcript joins, with single
\* spaces, every segment text as fetched, empty and whitespace-only ones too.
C7_ModelPathDropsEmpty ==
    /\ ModelPathNormalized
    /\ (yt.pc = "done" /\ yt.ret # None)
       => IsSpaceJoin(yt.ret, yt.transcript_data)

\* a whitespace-only segment between two spoken ones leaves no trace
C7_Witness ==
    /\ tf.pc = "done"
    /\ tf.result.success
    /\ Len(tf.stream) = 2
    /\ tf.stream[1].text = <<" ">>
    /\ tf.stream[2].text = <<" ","y","o"," ">>
    /\ tf.result.transcript = <<"y","o">>

\* an empty caption segment leaves its separator in the caption text
C7_WitnessCaption ==
    /\ yt.pc = "done"
    /\ yt.transcript_data = << <<>>, <<"h","i">> >>
    /\ yt.ret = <<" ","h","i">>

\* the probabilities of all words of the retained segments, rounded
RECURSIVE RetainedProbs(_)
RetainedProbs(stream) ==
    IF stream = <<>> THEN <<>>
    ELSE (IF Trimmed(Head(stream).text) = <<>> THEN <<>>
          ELSE [i \in 1..Len(Head(stream).words) |-> Round3(Head(stream).words[i])])
         \o RetainedProbs(Tail(stream))

\* C8: in a successful result average_confidence is absent exactly when no
\* retained segment has words; otherwise it is the mean of the probabilities
\* of all words, whatever segment has them.
C8_AverageConfidence ==
    (tf.pc = "done" /\ tf.result.success)
    => LET probs == RetainedProbs(tf.stream)
       IN  IF probs = <<>>
           THEN tf.result.average_confidence = NoneNum
           ELSE tf.result.average_confidence = RoundDiv(SumSeq(probs), Len(probs))

\* C10: with whisper_model None after the import, the application runs and
\* answers GET /; every POST /transcribe is answered 500 "Whisper model is not
\* available." and starts no download, writes no file, calls no transcriber.
C10_ModelUnavailable ==
    (service = "main" /\ whisper_model = "None")
    => /\ ct.pc \in {"idle", "check_model", "done"}
       /\ calls = <<>>
       /\ temp_audio = {}
       /\ uuids = 0
       /\ ct.pc = "done" => (ct.status = 500 /\ ct.detail = DetailNoModel)
       /\ (ct.pc = "idle" /\ rt.pc = "idle") => (ENABLED read_root /\ ENABLED CtCall)
       /\ rt.pc = "done" => rt.message = "Welcome to the YouTube Transcription API"

C10_Witness ==
    /\ whisper_model = "None"
    /\ ct.pc = "done"
    /\ ct.status = 500
    /\ ct.detail = DetailNoModel

\* GET / is answered while the model is unavailable
C10_WitnessRoot ==
    /\ whisper_model = "None"
    /\ rt.pc = "done"


\* api.list raised: the enumeration was attempted and gave no track list
EnumerationFailed == yt.pc = "done" /\ ~yt.listed /\ calls # <<>>

\* C13 as the specification states it: an enumeration failure other than the
\* transcripts-disabled signal is survived, a legacy flat fetch follows it;
\* only the transcripts-disabled signal ends resolution at once.
C13_EnumerationFailureSurvived ==
    EnumerationFailed
    => IF yt.caught = "TranscriptsDisabled"
       THEN CallNames = <<"list">>
       ELSE CallsNamed("legacy_flat_fetch") # {}

\* C13 amended: every failure of the enumeration is terminal, the
\* transcripts-disabled signal, an unavailable video and any other error
\* alike: None is returned and no call follows api.list.
C13_EnumerationFailureTerminal ==
    EnumerationFailed
    => /\ yt.caught \in ListErrors
       /\ yt.ret = None
       /\ CallNames = <<"list">>

C13_Witness ==
    /\ yt.pc = "done"
    /\ yt.caught = "RequestBlocked"
    /\ ~yt.listed
    /\ yt.ret = None
    /\ Len(calls) = 1

\* the order in which the collaborator enumerates the tracks of a video
EnumerationOrder == <<"fr", "pt", "en">>

\* the first language of a set in the enumeration order
FirstEnumerated(ls) ==
    EnumerationOrder[SetMin({i \in 1..Len(EnumerationOrder) : EnumerationOrder[i] \in ls})]

\* the first language of the list that the set has
RECURSIVE FirstPreferred(_, _)
FirstPreferred(langs, ls) ==
    IF Head(langs) \in ls THEN Head(langs) ELSE FirstPreferred(Tail(langs), ls)

\* no manual track of a preferred language, and at least one generated track
OnlyGeneratedUsable ==
    /\ yt.listed
    /\ CodesOf(yt.languages) \cap yt.transcript_list.manual = {}
    /\ yt.transcript_list.generated # {}

\* C14 as the specification states it: with no manual track of a preferred
\* language and some generated track, a generated track is selected whatever
\* its language: a preferred one if there is one, else the first enumerated.
C14_AnyLanguageGenerated ==
    (OnlyGeneratedUsable /\ yt.pc \in {"fetch", "join", "done"})
    => /\ yt.transcript # NoTranscriptFound
       /\ yt.transcript.is_generated
       /\ (CodesOf(yt.languages) \cap yt.transcript_list.generated = {})
          => yt.transcript.language_code = FirstEnumerated(yt.transcript_list.generated)

\* C14 amended: a generated track is accepted only in a preferred language.
\* With no manual track of a preferred language, the generated track of the
\* first preferred language that has one is selected; when no generated track
\* is in a preferred language None is returned and nothing is fetched,
\* whatever generated tracks the video has.
C14_PreferredLanguageGenerated ==
    (OnlyGeneratedUsable /\ yt.pc \in {"fetch", "join", "done"})
    => LET usable == CodesOf(yt.languages) \cap yt.transcript_list.generated
       IN  IF usable = {}
           THEN /\ yt.pc = "done"
                /\ yt.ret = None
                /\ yt.transcript = NoTranscriptFound
                /\ CallsNamed("fetch") = {}
           ELSE yt.transcript = Track(FirstPreferred(yt.languages, usable), TRUE)

\* a generated track exists, none in a preferred language: None is returned
C14_Witness ==
    /\ yt.pc = "done"
    /\ yt.languages = DefaultLanguages
    /\ yt.transcript_list = [manual |-> {}, generated |-> {"fr"}]
    /\ yt.ret = None
    /\ CallNames = <<"list", "find_transcript", "find_generated_transcript">>

\* two generated tracks of preferred languages: the languages list decides
C14_WitnessPreferred ==
    /\ yt.pc = "done"
    /\ yt.languages = <<"pt", "en">>
    /\ yt.transcript_list = [manual |-> {"fr"}, generated |-> {"en", "pt", "fr"}]
    /\ yt.transcript = Track("pt", TRUE)
    /\ yt.ret # None


\* C15: after a create_transcription request has finished, by any exit path,
\* no file written under its unique name remains in temp_audio; and the
\* names are fresh: every file carries the name of a request served so far,
\* and a request that downloads is the only holder of the newest name.
C15_NoFileRemains ==
    /\ (ct.pc = "done" /\ ct.unique_id # 0)
       => \A f \in temp_audio : f.id # ct.unique_id
    /\ \A f \in temp_audio : f.id \in 1..uuids
    /\ ct.pc = "download" => /\ ct.unique_id = uuids
                             /\ \A f \in temp_audio : f.id # ct.unique_id


\* request r is inside the transcriber: transcribe has been called and the
\* segment stream is not yet fully consumed
InTranscriber(r) == reqs[r].pc = "segments"

\* C11: invocations of the shared speech model are serialized. Under any
\* interleaving of the requests, at most one request is inside the
\* transcriber at any time.
C11_TranscriberSerialized ==
    \A r, q \in Clients : (InTranscriber(r) /\ InTranscriber(q)) => r = q

\* one request is decoding while a second transcription request waits
C11_Witness ==
    \E r, q \in Clients :
        /\ InTranscriber(r)
        /\ reqs[r].segments = 1
        /\ reqs[q].kind = "transcribe"
        /\ reqs[q].pc = "arrived"

\* a step of request q can be taken
CanProgress(q) ==
    ENABLED (\/ Dispatch(q) \/ SrvCheckModel(q) \/ SrvDownloadCall(q)
             \/ SrvDownloadReturn(q) \/ SrvExists(q) \/ SrvTranscribe(q)
             \/ SrvNextSegment(q) \/ SrvStreamRaises(q) \/ SrvFinish(q)
             \/ SrvFinally(q) \/ RootDispatch(q) \/ RootRun(q) \/ RootRespond(q))

\* C12: a slow upstream call does not stall other requests. While a request
\* is blocked in its audio download, every other request that has arrived
\* and is not yet answered can take a step.
C12_OthersNotStalled ==
    \A r, q \in Clients :
        (/\ r # q
         /\ reqs[r].pc = "in_download"
         /\ reqs[q].pc \notin {"none", "done"})
        => CanProgress(q)

====
